---- MODULE Spec2Model ----
(***************************************************************************)
(* Model of the mevboost-relay-api client (crates/mevboost-relay-api) and  *)
(* of the winning-bid-timestamp command of its CLI (bin/cli).              *)
(*                                                                         *)
(* The relays are the environment: every fetch is answered by a transport  *)
(* failure or by a body, chosen nondeterministically.  An aggregate call   *)
(* is a sequential loop over the registry's keys with one await per relay; *)
(* each iteration is one step, and the HashMap's unspecified iteration     *)
(* order is the nondeterministic choice of the next relay.                 *)
(***************************************************************************)
EXTENDS Integers, Sequences, FiniteSets, TLC

(***************************************************************************)
(* Bounds of the model.                                                    *)
(***************************************************************************)
\* how many of the default relays may be in a registry
NumRelays == 2
\* most registrations (of distinct slots) a relay returns in one body
MaxValidators == 2
\* longest list of (distinct) payloads, and of bids, in one body
MaxItems == 2

(***************************************************************************)
(* Program constants.                                                      *)
(***************************************************************************)
\* constants.rs: the keys of DEFAULT_RELAYS, in insertion order
DefaultRelayNames ==
    <<"ultrasound", "flashbots", "aestus", "agnostic",
      "bloxroute-max-profit", "bloxroute-regulated">>

\* constants.rs: DEFAULT_RELAYS (the pubkey of the authority part elided)
DEFAULT_RELAYS ==
    [n \in {DefaultRelayNames[i] : i \in 1..Len(DefaultRelayNames)} |->
        CASE n = "ultrasound" -> "https://relay.ultrasound.money"
          [] n = "flashbots" -> "https://boost-relay.flashbots.net"
          [] n = "aestus" -> "https://aestus.live"
          [] n = "agnostic" -> "https://agnostic-relay.net"
          [] n = "bloxroute-max-profit" -> "https://bloxroute.max-profit.blxrbdn.com"
          [] n = "bloxroute-regulated" -> "https://bloxroute.regulated.blxrbdn.com"]

GET_VALIDATORS_ENDPOINT == "/relay/v1/builder/validators"
CHECK_VALIDATOR_REGISTRATION == "/relay/v1/data/validator_registration"
GET_DELIVERED_PAYLOADS == "/relay/v1/data/bidtraces/proposer_payload_delivered"
\* referenced by lib.rs:121; its definition is not among the constants kept
GET_BUILDER_BLOCKS_RECEIVED == "/relay/v1/data/bidtraces/builder_blocks_received"

\* lib.rs:184: the fill loop runs over initial_slot..(initial_slot + 63)
FillSpan == 63

(***************************************************************************)
(* Inputs.                                                                 *)
(***************************************************************************)
Min(a, b) == IF a <= b THEN a ELSE b

\* the relay names a registry is built from
RelayNames ==
    {DefaultRelayNames[i] : i \in 1..Min(NumRelays, Len(DefaultRelayNames))}

\* the names a caller passes to a single-relay operation
CallNames == RelayNames \cup {"nonexistent"}

\* slots a relay may report: an anchor, an inner slot, and the last slot of
\* the two epochs that begin at the anchor
SlotChoices == {100, 105, 163}
HashChoices == {"0xabc", "0xdef"}
TimestampChoices == {1690000, 1690001}
PubkeyChoices == {"0xacb2"}
SignatureChoices == {"0x51", "0x52"}
QuerySlots == {7761220}

\* values of the optional fields of a filter
OptNum == {<<>>, <<0>>, <<7761220>>}
OptStr == {<<>>, <<"0xabc">>}
OptOrder == {<<>>, <<"-value">>}

\* sequences of distinct elements of S, of length at most n
RECURSIVE DistinctSeqsUpTo(_, _)
DistinctSeqsUpTo(S, n) ==
    IF n = 0 THEN {<<>>}
    ELSE LET shorter == DistinctSeqsUpTo(S, n - 1)
         IN  shorter \cup
             UNION {{Append(q, x) : x \in {y \in S : \A i \in 1..Len(q) : q[i] # y}}
                    : q \in shorter}

(***************************************************************************)
(* Results: anyhow::Result<T>.  An error carries the place it was made     *)
(* (kind) and its message.                                                 *)
(***************************************************************************)
Ok(v) == [ok |-> TRUE, val |-> v]
Err(k, m) == [ok |-> FALSE, kind |-> k, msg |-> m]

(***************************************************************************)
(* The environment's answer to one fetch: a transport failure, or a body.  *)
(* A body is the empty text, text that is not JSON, a JSON object of       *)
(* another schema (such as a relay's error object), or JSON of the schema  *)
(* the endpoint documents, with its items.                                 *)
(***************************************************************************)
TransportFailure == [sent |-> FALSE, shape |-> "none", items |-> <<>>]
Body(shape, items) == [sent |-> TRUE, shape |-> shape, items |-> items]
BadBodies == {Body("empty", <<>>), Body("garbage", <<>>), Body("other", <<>>)}

ValidatorsResponses ==
    {TransportFailure} \cup BadBodies
        \cup {Body("validators", q) : q \in DistinctSeqsUpTo(SlotChoices, MaxValidators)}
EntryResponses ==
    {TransportFailure} \cup BadBodies
        \cup {Body("entry", <<p, sig>>) : p \in PubkeyChoices,
                                            sig \in SignatureChoices}
PayloadsResponses ==
    {TransportFailure} \cup BadBodies
        \cup {Body("payloads", q) : q \in DistinctSeqsUpTo(HashChoices, MaxItems)}
BidsResponses ==
    {TransportFailure} \cup BadBodies
        \cup {Body("bids", q) : q \in DistinctSeqsUpTo(TimestampChoices, MaxItems)}

\* lib.rs:206-218, with the relay's answer as a parameter
fetch(endpoint, resp) ==
    IF resp.sent THEN Ok(resp) ELSE Err("Transport", "error sending request")

\* serde_json::from_str::<T>(&response).map_err(..): T is named by `want`
\* (an array schema also accepts no other JSON than an array of its items)
from_str(want, body) ==
    IF body.shape = want THEN Ok(body.items)
    ELSE Err("Parse", "Failed to parse JSON response: " \o
             (CASE body.shape = "empty" -> "EOF while parsing a value"
                [] body.shape = "garbage" -> "expected value"
                [] OTHER -> "invalid type or missing field"))

(***************************************************************************)
(* Query options and their encoding (types.rs).  An Option<T> is a         *)
(* sequence of length at most one.                                         *)
(***************************************************************************)
None == <<>>
Some(v) == <<v>>

PayloadDeliveredDefault ==
    [slot |-> None, cursor |-> None, limit |-> None, block_hash |-> None,
     block_number |-> None, proposer_pubkey |-> None,
     builder_pubkey |-> None, order_by |-> None]

BuilderBidsDefault ==
    [slot |-> None, block_hash |-> None, block_number |-> None,
     builder_pubkey |-> None, limit |-> None]

\* one `if let Some(v) = field { query.push_str(&format!("key={}&", v)) }`
PushNum(key, opt) ==
    IF opt = None THEN "" ELSE key \o "=" \o ToString(opt[1]) \o "&"
PushStr(key, opt) ==
    IF opt = None THEN "" ELSE key \o "=" \o opt[1] \o "&"

PayloadDeliveredToString(o) ==
    "?" \o PushNum("slot", o.slot) \o PushNum("cursor", o.cursor)
        \o PushNum("limit", o.limit) \o PushStr("block_hash", o.block_hash)
        \o PushNum("block_number", o.block_number)
        \o PushStr("proposer_pubkey", o.proposer_pubkey)
        \o PushStr("builder_pubkey", o.builder_pubkey)
        \o PushStr("order_by", o.order_by)

\* the encoding with limit pushed where the payload filter has it
BuilderBidsToStringLimitThird(o) ==
    "?" \o PushNum("slot", o.slot) \o PushNum("limit", o.limit)
        \o PushStr("block_hash", o.block_hash)
        \o PushNum("block_number", o.block_number)
        \o PushStr("builder_pubkey", o.builder_pubkey)

BuilderBidsToString(o) ==
    "?" \o PushNum("slot", o.slot) \o PushStr("block_hash", o.block_hash)
        \o PushNum("block_number", o.block_number)
        \o PushStr("builder_pubkey", o.builder_pubkey)
        \o PushNum("limit", o.limit)

(***************************************************************************)
(* State.                                                                  *)
(***************************************************************************)
VARIABLES
    relays,     \* Client.relays: relay name -> base endpoint
    pc,         \* the running operation and its position
    arg,        \* the operation's arguments
    remaining,  \* keys of the map being iterated that are still to come
    order,      \* the relays of the running loop, in the order taken
    answers,    \* relay -> the environment's answer to its fetch
    outcomes,   \* relay -> the result of its single-relay call
    acc,        \* the map the running loop builds
    payloads,   \* CLI: relay -> delivered payloads (block hashes)
    fetched,    \* every endpoint fetch was called with, in order
    queries,    \* CLI: the builder-blocks queries made, as [relay, opts]
    printed,    \* CLI: the lines written to stdout, as [slot, relay, timestamp]
    ret         \* the operation's result, once it returned

vars == <<relays, pc, arg, remaining, order, answers, outcomes, acc,
          payloads, fetched, queries, printed, ret>>

EmptyMap == [x \in {} |-> <<>>]
NoArg == [op |-> "", name |-> "", pubkey |-> "", slot |-> 0]
Running == [ok |-> FALSE, kind |-> "Running", msg |-> ""]

\* m with key k bound to v (HashMap::insert)
Insert(m, k, v) == [x \in DOMAIN m \cup {k} |-> IF x = k THEN v ELSE m[x]]

\* Client::default() or Client::with_relays(relays)
Init ==
    /\ relays \in {[n \in D |-> DEFAULT_RELAYS[n]] : D \in SUBSET RelayNames}
    /\ pc = "idle"
    /\ arg = NoArg
    /\ remaining = {}
    /\ order = <<>>
    /\ answers = EmptyMap
    /\ outcomes = EmptyMap
    /\ acc = EmptyMap
    /\ payloads = EmptyMap
    /\ fetched = <<>>
    /\ queries = <<>>
    /\ printed = <<>>
    /\ ret = Running

(***************************************************************************)
(* Single-relay operations (lib.rs:56-128, 220-229).  Each is a function   *)
(* of the relay's answer and yields the result with the endpoints fetched. *)
(***************************************************************************)
\* a lookup that falls back to the built-in table
get_relay_url_fallback(relay_name) ==
    IF relay_name \in DOMAIN relays THEN Ok(relays[relay_name])
    ELSE Ok(DEFAULT_RELAYS[DefaultRelayNames[1]])

get_relay_url(relay_name) ==
    IF relay_name \in DOMAIN relays
    THEN Ok(relays[relay_name])
    ELSE Err("RelayNotFound",
             "Relay " \o relay_name \o " not found in list of relays")

\* the tail with a failed fetch tried a second time
FetchAndParseRetry(endpoint, want, resp) ==
    LET response == fetch(endpoint, resp)
    IN  [res |-> IF response.ok THEN from_str(want, response.val) ELSE response,
         sent |-> IF response.ok THEN <<endpoint>> ELSE <<endpoint, endpoint>>]

\* the common tail of the four operations: fetch(endpoint).await?, then parse
FetchAndParse(endpoint, want, resp) ==
    LET response == fetch(endpoint, resp)
    IN  [res |-> IF response.ok THEN from_str(want, response.val) ELSE response,
         sent |-> <<endpoint>>]

get_validators_for_current_and_next_epoch(relay_name, resp) ==
    LET relay_url == get_relay_url(relay_name)
    IN  IF ~relay_url.ok THEN [res |-> relay_url, sent |-> <<>>]
        ELSE FetchAndParse(relay_url.val \o GET_VALIDATORS_ENDPOINT,
                           "validators", resp)

get_validator_registration(relay_name, pubkey, resp) ==
    LET relay_url == get_relay_url(relay_name)
    IN  IF ~relay_url.ok THEN [res |-> relay_url, sent |-> <<>>]
        ELSE FetchAndParse(relay_url.val \o CHECK_VALIDATOR_REGISTRATION
                               \o "?pubkey=" \o pubkey,
                           "entry", resp)

get_payload_delivered_bidtraces(relay_name, opts, resp) ==
    LET relay_url == get_relay_url(relay_name)
    IN  IF ~relay_url.ok THEN [res |-> relay_url, sent |-> <<>>]
        ELSE FetchAndParse(relay_url.val \o GET_DELIVERED_PAYLOADS
                               \o PayloadDeliveredToString(opts),
                           "payloads", resp)

get_builder_blocks_received(relay_name, opts, resp) ==
    LET relay_url == get_relay_url(relay_name)
    IN  IF ~relay_url.ok THEN [res |-> relay_url, sent |-> <<>>]
        ELSE FetchAndParse(relay_url.val \o GET_BUILDER_BLOCKS_RECEIVED
                               \o BuilderBidsToString(opts),
                           "bids", resp)

\* a direct call of one single-relay operation by the library's user
Return(call, args, resp) ==
    /\ pc = "idle"
    /\ pc' = "done"
    /\ arg' = args
    /\ order' = <<args.name>>
    /\ answers' = Insert(answers, args.name, resp)
    /\ outcomes' = Insert(outcomes, args.name, call.res)
    /\ fetched' = fetched \o call.sent
    /\ ret' = call.res
    /\ UNCHANGED <<relays, remaining, acc, payloads, queries, printed>>

CallGetValidators ==
    \E name \in CallNames, resp \in ValidatorsResponses :
        Return(get_validators_for_current_and_next_epoch(name, resp),
               [NoArg EXCEPT !.op = "validators", !.name = name], resp)

CallGetValidatorRegistration ==
    \E name \in CallNames, pubkey \in PubkeyChoices, resp \in EntryResponses :
        Return(get_validator_registration(name, pubkey, resp),
               [NoArg EXCEPT !.op = "registration", !.name = name,
                             !.pubkey = pubkey],
               resp)

CallGetPayloadDelivered ==
    \E name \in CallNames, slot \in QuerySlots, resp \in PayloadsResponses :
        Return(get_payload_delivered_bidtraces(
                   name, [PayloadDeliveredDefault EXCEPT !.slot = Some(slot)],
                   resp),
               [NoArg EXCEPT !.op = "payloads", !.name = name, !.slot = slot],
               resp)

CallGetBuilderBlocks ==
    \E name \in CallNames, slot \in QuerySlots, resp \in BidsResponses :
        Return(get_builder_blocks_received(
                   name, [BuilderBidsDefault EXCEPT !.slot = Some(slot)], resp),
               [NoArg EXCEPT !.op = "bids", !.name = name, !.slot = slot],
               resp)

(***************************************************************************)
(* Aggregate operations (lib.rs:134-203).  The body of a loop is an        *)
(* operator from the map built so far and one relay's result to            *)
(* [abort, acc, res]: abort is the `?` leaving the function with res.      *)
(***************************************************************************)
\* the ghost record of one iteration of a loop over relays
Visit(relay_name, resp, call) ==
    /\ remaining' = remaining \ {relay_name}
    /\ order' = Append(order, relay_name)
    /\ answers' = Insert(answers, relay_name, resp)
    /\ outcomes' = Insert(outcomes, relay_name, call.res)
    /\ fetched' = fetched \o call.sent

\* the arm with `?` in place of the match
RegistrationArmAbort(map, relay_name, res) ==
    [abort |-> ~res.ok,
     acc |-> IF res.ok THEN Insert(map, relay_name, res.val) ELSE map,
     res |-> res]

\* lib.rs:140-153: Ok is inserted, Err is logged and skipped
RegistrationArm(map, relay_name, res) ==
    [abort |-> FALSE,
     acc |-> IF res.ok THEN Insert(map, relay_name, res.val) ELSE map,
     res |-> res]

StartRegistrationOnAllRelays ==
    /\ pc = "idle"
    /\ \E pubkey \in PubkeyChoices :
           arg' = [arg EXCEPT !.op = "reg_all", !.pubkey = pubkey]
    /\ pc' = "reg_all"
    /\ remaining' = DOMAIN relays
    /\ acc' = EmptyMap
    /\ UNCHANGED <<relays, order, answers, outcomes, payloads, fetched,
                   queries, printed, ret>>

StepRegistrationOnAllRelays ==
    /\ pc = "reg_all"
    /\ \E relay_name \in remaining, resp \in EntryResponses :
        LET call == get_validator_registration(relay_name, arg.pubkey, resp)
            arm == RegistrationArm(acc, relay_name, call.res)
        IN  /\ Visit(relay_name, resp, call)
            /\ acc' = arm.acc
            /\ pc' = IF arm.abort THEN "done" ELSE pc
            /\ ret' = IF arm.abort THEN arm.res ELSE ret
    /\ UNCHANGED <<relays, arg, payloads, queries, printed>>

ReturnRegistrationOnAllRelays ==
    /\ pc = "reg_all"
    /\ remaining = {}
    /\ pc' = "done"
    /\ ret' = Ok(acc)
    /\ UNCHANGED <<relays, arg, remaining, order, answers, outcomes, acc,
                   payloads, fetched, queries, printed>>

\* the inner loop with insert in place of entry().or_insert_with().push()
RECURSIVE PushAllInsert(_, _, _)
PushAllInsert(map, relay_res, relay_name) ==
    IF relay_res = <<>> THEN map
    ELSE PushAllInsert(Insert(map, Head(relay_res), <<relay_name>>),
                       Tail(relay_res), relay_name)

\* lib.rs:172-178: one push per validator returned, under its slot
RECURSIVE PushAll(_, _, _)
PushAll(map, relay_res, relay_name) ==
    IF relay_res = <<>> THEN map
    ELSE LET slot == Head(relay_res)
             relay_names == IF slot \in DOMAIN map THEN map[slot] ELSE <<>>
         IN  PushAll(Insert(map, slot, Append(relay_names, relay_name)),
                     Tail(relay_res), relay_name)

\* the loop body with the error logged and skipped
SlotsArmSkip(map, relay_name, res) ==
    [abort |-> FALSE,
     acc |-> IF res.ok THEN PushAll(map, res.val, relay_name) ELSE map,
     res |-> res]

\* lib.rs:168-179: `.await?` leaves with the relay's error
SlotsArm(map, relay_name, res) ==
    IF ~res.ok THEN [abort |-> TRUE, acc |-> map, res |-> res]
    ELSE [abort |-> FALSE, acc |-> PushAll(map, res.val, relay_name),
          res |-> res]

SetMin(S) == CHOOSE x \in S : \A y \in S : x <= y

\* the fill with a minimum that defaults to 0 when there is no key
FillSlotsFromDefault(map) ==
    LET initial_slot == IF DOMAIN map = {} THEN 0 ELSE SetMin(DOMAIN map)
        range == {slot \in initial_slot..(initial_slot + FillSpan) :
                     slot < initial_slot + FillSpan}
    IN  [slot \in DOMAIN map \cup range |->
            IF slot \in DOMAIN map THEN map[slot] ELSE <<>>]

\* lib.rs:183-187: every slot of initial_slot..(initial_slot + 63) that has
\* no entry gets an empty vector (the range excludes its upper end; the
\* slots of SlotChoices are far from the end of u64, where the sum overflows)
FillSlots(map) ==
    IF DOMAIN map = {} THEN map
    ELSE LET initial_slot == SetMin(DOMAIN map)
             range == {slot \in initial_slot..(initial_slot + FillSpan) :
                          slot < initial_slot + FillSpan}
         IN  [slot \in DOMAIN map \cup range |->
                 IF slot \in DOMAIN map THEN map[slot] ELSE <<>>]

\* lib.rs:198-202: the keys whose vector is empty (in the HashMap's order,
\* which is unspecified: the vector is modelled by the set of its elements)
VanillaSlots(all) == {k \in DOMAIN all : all[k] = <<>>}

StartSlotsOnAllRelays ==
    /\ pc = "idle"
    /\ arg' = [arg EXCEPT !.op = "slots_all"]
    /\ pc' = "slots_all"
    /\ remaining' = DOMAIN relays
    /\ acc' = EmptyMap
    /\ UNCHANGED <<relays, order, answers, outcomes, payloads, fetched,
                   queries, printed, ret>>

StepSlotsOnAllRelays ==
    /\ pc = "slots_all"
    /\ \E relay_name \in remaining, resp \in ValidatorsResponses :
        LET call == get_validators_for_current_and_next_epoch(relay_name, resp)
            arm == SlotsArm(acc, relay_name, call.res)
        IN  /\ Visit(relay_name, resp, call)
            /\ acc' = arm.acc
            /\ pc' = IF arm.abort THEN "done" ELSE pc
            /\ ret' = IF arm.abort THEN arm.res ELSE ret
    /\ UNCHANGED <<relays, arg, payloads, queries, printed>>

ReturnSlotsOnAllRelays ==
    /\ pc = "slots_all"
    /\ remaining = {}
    /\ pc' = "done"
    /\ acc' = FillSlots(acc)
    /\ ret' = Ok(acc')
    /\ UNCHANGED <<relays, arg, remaining, order, answers, outcomes,
                   payloads, fetched, queries, printed>>

\* lib.rs:193-203: get_vanilla_slots_for_current_and_next_epoch is a call
\* of get_validator_registration_for_all_slots_on_all_relays, whose error
\* it returns (`.await?`) and whose map it filters
GetVanillaSlots ==
    /\ pc = "done"
    /\ arg.op = "slots_all"
    /\ arg' = [arg EXCEPT !.op = "vanilla"]
    /\ ret' = IF ret.ok THEN Ok(VanillaSlots(ret.val)) ELSE ret
    /\ UNCHANGED <<relays, pc, remaining, order, answers, outcomes, acc,
                   payloads, fetched, queries, printed>>

(***************************************************************************)
(* The CLI's winning-bid-timestamp command (main.rs:134-165).              *)
(***************************************************************************)
\* get_payloads_delivered_bidtraces_on_all_relays, which main.rs:135-140
\* calls, is not in lib.rs; it is the fan-out of
\* get_payload_delivered_bidtraces over the registry with the policy of
\* the multi-relay aggregator: a failing relay is left out of the mapping
PayloadsArm(map, relay_name, res) ==
    [abort |-> FALSE,
     acc |-> IF res.ok THEN Insert(map, relay_name, res.val) ELSE map,
     res |-> res]

\* the iteration taking the last bid returned instead of the first
WinningBidArmLast(slot, relay, relay_payloads, resp) ==
    IF relay_payloads = <<>>
    THEN [exit |-> FALSE, res |-> Ok(<<>>), sent |-> <<>>, query |-> <<>>,
          out |-> <<>>]
    ELSE LET block_hash == relay_payloads[1]
             opts == [BuilderBidsDefault EXCEPT !.slot = Some(slot),
                                                !.block_hash = Some(block_hash)]
             call == get_builder_blocks_received(relay, opts, resp)
             query == <<[relay |-> relay, opts |-> opts]>>
         IN  IF ~call.res.ok
             THEN [exit |-> TRUE, res |-> call.res, sent |-> call.sent,
                   query |-> query, out |-> <<>>]
             ELSE IF call.res.val = <<>>
             THEN [exit |-> TRUE,
                   res |-> Err("Panic", "index out of bounds: the len is 0 but the index is 0"),
                   sent |-> call.sent, query |-> query, out |-> <<>>]
             ELSE [exit |-> FALSE, res |-> call.res, sent |-> call.sent,
                   query |-> query,
                   out |-> <<[slot |-> slot, relay |-> relay,
                              timestamp |-> call.res.val[Len(call.res.val)]]>>]

\* the iteration with a failed lookup skipped instead of returned
WinningBidArmContinue(slot, relay, relay_payloads, resp) ==
    IF relay_payloads = <<>>
    THEN [exit |-> FALSE, res |-> Ok(<<>>), sent |-> <<>>, query |-> <<>>,
          out |-> <<>>]
    ELSE LET block_hash == relay_payloads[1]
             opts == [BuilderBidsDefault EXCEPT !.slot = Some(slot),
                                                !.block_hash = Some(block_hash)]
             call == get_builder_blocks_received(relay, opts, resp)
             query == <<[relay |-> relay, opts |-> opts]>>
         IN  IF ~call.res.ok
             THEN [exit |-> FALSE, res |-> call.res, sent |-> call.sent,
                   query |-> query, out |-> <<>>]
             ELSE IF call.res.val = <<>>
             THEN [exit |-> TRUE,
                   res |-> Err("Panic", "index out of bounds: the len is 0 but the index is 0"),
                   sent |-> call.sent, query |-> query, out |-> <<>>]
             ELSE [exit |-> FALSE, res |-> call.res, sent |-> call.sent,
                   query |-> query,
                   out |-> <<[slot |-> slot, relay |-> relay,
                              timestamp |-> call.res.val[1]]>>]

\* main.rs:142-164, one iteration of the loop over (relay, relay_payloads)
\* with the relay's answer to the builder-blocks query, should one be sent:
\* [exit: the command ends here, res: with this result, sent: the endpoints
\* fetched, query: the queries made, out: the lines printed]
WinningBidArm(slot, relay, relay_payloads, resp) ==
    IF relay_payloads = <<>>
    THEN [exit |-> FALSE, res |-> Ok(<<>>), sent |-> <<>>, query |-> <<>>,
          out |-> <<>>]
    ELSE LET block_hash == relay_payloads[1]
             opts == [BuilderBidsDefault EXCEPT !.slot = Some(slot),
                                                !.block_hash = Some(block_hash)]
             call == get_builder_blocks_received(relay, opts, resp)
             query == <<[relay |-> relay, opts |-> opts]>>
         IN  IF ~call.res.ok
             THEN [exit |-> TRUE, res |-> call.res, sent |-> call.sent,
                   query |-> query, out |-> <<>>]
             ELSE IF call.res.val = <<>>
             THEN [exit |-> TRUE,
                   res |-> Err("Panic", "index out of bounds: the len is 0 but the index is 0"),
                   sent |-> call.sent, query |-> query, out |-> <<>>]
             ELSE [exit |-> FALSE, res |-> call.res, sent |-> call.sent,
                   query |-> query,
                   out |-> <<[slot |-> slot, relay |-> relay,
                              timestamp |-> call.res.val[1]]>>]

StartWinningBidTimestamp ==
    /\ pc = "idle"
    /\ \E slot \in QuerySlots :
           arg' = [arg EXCEPT !.op = "winning_bid_timestamp", !.slot = slot]
    /\ pc' = "payloads_all"
    /\ remaining' = DOMAIN relays
    /\ acc' = EmptyMap
    /\ UNCHANGED <<relays, order, answers, outcomes, payloads, fetched,
                   printed, queries, ret>>

StepPayloadsOnAllRelays ==
    /\ pc = "payloads_all"
    /\ \E relay_name \in remaining, resp \in PayloadsResponses :
        LET opts == [PayloadDeliveredDefault EXCEPT !.slot = Some(arg.slot)]
            call == get_payload_delivered_bidtraces(relay_name, opts, resp)
            arm == PayloadsArm(acc, relay_name, call.res)
        IN  /\ Visit(relay_name, resp, call)
            /\ acc' = arm.acc
            /\ pc' = IF arm.abort THEN "done" ELSE pc
            /\ ret' = IF arm.abort THEN arm.res ELSE ret
    /\ UNCHANGED <<relays, arg, payloads, printed, queries>>

\* main.rs:135-142: the mapping is returned and the loop over it begins
ReturnPayloadsOnAllRelays ==
    /\ pc = "payloads_all"
    /\ remaining = {}
    /\ payloads' = acc
    /\ remaining' = DOMAIN acc
    /\ pc' = "winning_bids"
    /\ order' = <<>>
    /\ answers' = EmptyMap
    /\ outcomes' = EmptyMap
    /\ acc' = EmptyMap
    /\ UNCHANGED <<relays, arg, fetched, printed, queries, ret>>

\* main.rs:143-145: `continue` on a relay without payloads
SkipRelayWithoutPayloads ==
    /\ pc = "winning_bids"
    /\ \E relay \in remaining :
        /\ payloads[relay] = <<>>
        /\ ~WinningBidArm(arg.slot, relay, payloads[relay], TransportFailure).exit
        /\ remaining' = remaining \ {relay}
        /\ order' = Append(order, relay)
    /\ UNCHANGED <<relays, pc, arg, answers, outcomes, acc, payloads,
                   fetched, printed, queries, ret>>

\* main.rs:147-163
StepWinningBid ==
    /\ pc = "winning_bids"
    /\ \E relay \in remaining, resp \in BidsResponses :
        LET arm == WinningBidArm(arg.slot, relay, payloads[relay], resp)
        IN  /\ payloads[relay] # <<>>
            /\ remaining' = remaining \ {relay}
            /\ order' = Append(order, relay)
            /\ answers' = Insert(answers, relay, resp)
            /\ outcomes' = Insert(outcomes, relay, arm.res)
            /\ fetched' = fetched \o arm.sent
            /\ queries' = queries \o arm.query
            /\ printed' = printed \o arm.out
            /\ pc' = IF arm.exit THEN "done" ELSE pc
            /\ ret' = IF arm.exit THEN arm.res ELSE ret
    /\ UNCHANGED <<relays, arg, acc, payloads>>

\* main.rs:168: Ok(())
ReturnWinningBidTimestamp ==
    /\ pc = "winning_bids"
    /\ remaining = {}
    /\ pc' = "done"
    /\ ret' = Ok(<<>>)
    /\ UNCHANGED <<relays, arg, remaining, order, answers, outcomes, acc,
                   payloads, fetched, printed, queries>>

NextLib ==
    \/ CallGetValidators
    \/ CallGetValidatorRegistration
    \/ CallGetPayloadDelivered
    \/ CallGetBuilderBlocks
    \/ StartRegistrationOnAllRelays
    \/ StepRegistrationOnAllRelays
    \/ ReturnRegistrationOnAllRelays
    \/ StartSlotsOnAllRelays
    \/ StepSlotsOnAllRelays
    \/ ReturnSlotsOnAllRelays
    \/ GetVanillaSlots

NextCli ==
    \/ StartWinningBidTimestamp
    \/ StepPayloadsOnAllRelays
    \/ ReturnPayloadsOnAllRelays
    \/ SkipRelayWithoutPayloads
    \/ StepWinningBid
    \/ ReturnWinningBidTimestamp

(***************************************************************************)
(* The encoding of the query options (types.rs:56-88, 127-150), applied to *)
(* every filter over the values above.                                     *)
(***************************************************************************)
PayloadDeliveredOptions ==
    [slot : OptNum, cursor : OptNum, limit : OptNum, block_hash : OptStr,
     block_number : OptNum, proposer_pubkey : OptStr,
     builder_pubkey : OptStr, order_by : OptOrder]

BuilderBidsOptions ==
    [slot : OptNum, block_hash : OptStr, block_number : OptNum,
     builder_pubkey : OptStr, limit : OptNum]

\* opts.to_string() at lib.rs:102
EncodePayloadDelivered ==
    /\ pc = "idle"
    /\ \E opts \in PayloadDeliveredOptions :
        /\ acc' = opts
        /\ ret' = Ok(PayloadDeliveredToString(opts))
    /\ arg' = [arg EXCEPT !.op = "encode_payloads"]
    /\ pc' = "done"
    /\ UNCHANGED <<relays, remaining, order, answers, outcomes, payloads,
                   fetched, queries, printed>>

\* opts.to_string() at lib.rs:122
EncodeBuilderBids ==
    /\ pc = "idle"
    /\ \E opts \in BuilderBidsOptions :
        /\ acc' = opts
        /\ ret' = Ok(BuilderBidsToString(opts))
    /\ arg' = [arg EXCEPT !.op = "encode_bids"]
    /\ pc' = "done"
    /\ UNCHANGED <<relays, remaining, order, answers, outcomes, payloads,
                   fetched, queries, printed>>

NextEncode ==
    \/ EncodePayloadDelivered
    \/ EncodeBuilderBids

\* the library's operations, called by its user
Spec == Init /\ [][NextLib]_vars

\* the command line's winning-bid-timestamp command
SpecCli == Init /\ [][NextCli]_vars

\* the encoding of the filters
SpecEncode == Init /\ [][NextEncode]_vars

(***************************************************************************)
(* Properties.                                                             *)
(***************************************************************************)
Range(q) == {q[i] : i \in 1..Len(q)}
Returned(op) == pc = "done" /\ arg.op = op
SingleOps == {"validators", "registration", "payloads", "bids"}

\* the relays of the running loop whose single-relay call succeeded
Succeeded == {r \in DOMAIN outcomes : outcomes[r].ok}
\* a relay after the first of the loop failed
LaterFailed == \E i \in 2..Len(order) : ~outcomes[order[i]].ok

\* C1: get_validator_registration_on_all_relays returns Ok, every relay of
\* the registry was queried whatever the others answered, the keys of the
\* mapping are exactly the relays whose call succeeded, and each is mapped
\* to the entry that relay's body held.
C1_RegistrationOnAllRelaysNeverFails ==
    Returned("reg_all") =>
        /\ ret.ok
        /\ DOMAIN outcomes = DOMAIN relays
        /\ DOMAIN ret.val = Succeeded
        /\ \A r \in DOMAIN ret.val :
               /\ answers[r].shape = "entry"
               /\ ret.val[r] = answers[r].items

\* a relay failed first, a later one succeeded, and the call returned
C1_Witness ==
    /\ Returned("reg_all")
    /\ Len(order) >= 2
    /\ ~outcomes[order[1]].ok
    /\ outcomes[order[2]].ok

\* C2: when the epoch-validator call to the first relay queried fails,
\* get_validator_registration_for_all_slots_on_all_relays has returned that
\* error: no further relay is queried and no slot map is returned.
C2_FirstRelayFailureFailsAll ==
    (arg.op = "slots_all" /\ order # <<>> /\ ~outcomes[order[1]].ok) =>
        /\ pc = "done"
        /\ ~ret.ok
        /\ ret = outcomes[order[1]]
        /\ Len(order) = 1

\* the first of two relays failed
C2_Witness ==
    /\ Returned("slots_all")
    /\ Cardinality(DOMAIN relays) >= 2
    /\ order # <<>>
    /\ ~outcomes[order[1]].ok

\* C3: when the first relay queried succeeds and a later one fails, the
\* aggregate call does not fail: it returns a slot map built from the
\* relays that succeeded, in which the failing relay does not appear.
C3_LaterRelayFailureTolerated ==
    (Returned("slots_all") /\ order # <<>> /\ outcomes[order[1]].ok
        /\ LaterFailed) =>
        /\ ret.ok
        /\ \A s \in DOMAIN ret.val : Range(ret.val[s]) \subseteq Succeeded

\* the slots the relays reported in the running loop
ObservedSlots ==
    UNION {Range(answers[r].items) :
           r \in {x \in DOMAIN answers : answers[x].shape = "validators"}}
\* the relays that reported slot s
RelaysAt(s) ==
    {r \in DOMAIN answers :
        answers[r].shape = "validators" /\ s \in Range(answers[r].items)}
\* the two epochs (32 + 32 slots) that begin at the minimum observed slot
Window == LET m == SetMin(ObservedSlots) IN m..(m + 63)

\* C4: when a registration was returned, every slot of the 64 consecutive
\* slots m .. m+63 from the minimum observed slot m is a key of the map.
C4_SlotMapCoversWindow ==
    (Returned("slots_all") /\ ret.ok /\ ObservedSlots # {}) =>
        Window \subseteq DOMAIN ret.val

\* C5: the vanilla slots are exactly the slots of the 64-slot window at the
\* minimum observed slot for which no relay returned a registration.
C5_VanillaSlotsExact ==
    (Returned("vanilla") /\ ret.ok /\ ObservedSlots # {}) =>
        ret.val = {s \in Window : RelaysAt(s) = {}}

\* every relay of the registry answered with an empty list of registrations
AllEmpty ==
    /\ DOMAIN outcomes = DOMAIN relays
    /\ \A r \in DOMAIN relays :
           answers[r] = Body("validators", <<>>) /\ outcomes[r].ok

\* C6: when every relay's epoch-validator call succeeds with zero
\* registrations, the slot map is empty (no range is filled in) and the
\* vanilla slots are empty.
C6_NoRegistrationsNoSlots ==
    (pc = "done" /\ arg.op \in {"slots_all", "vanilla"} /\ AllEmpty) =>
        /\ ret.ok
        /\ DOMAIN acc = {}
        /\ arg.op = "slots_all" => DOMAIN ret.val = {}
        /\ arg.op = "vanilla" => ret.val = {}

\* two relays, both with an empty list, and the vanilla slots returned
C6_Witness ==
    /\ Returned("vanilla")
    /\ Cardinality(DOMAIN relays) >= 2
    /\ AllEmpty

\* the endpoint of the builder-blocks query for slot and block hash at relay
BidsEndpoint(relay, slot, block_hash) ==
    relays[relay] \o GET_BUILDER_BLOCKS_RECEIVED \o "?slot=" \o ToString(slot)
        \o "&block_hash=" \o block_hash \o "&"

QueriesTo(relay) == {j \in 1..Len(queries) : queries[j].relay = relay}
LinesOf(relay) == {i \in 1..Len(printed) : printed[i].relay = relay}

\* C7: every timestamp reported is the timestamp_ms of the first bid the
\* relay named answered to the one builder-blocks query sent to it, a query
\* filtered by the slot asked for and the block hash of that relay's first
\* delivered payload; a relay without a delivered payload gets no query and
\* no line; and when the command succeeds every relay with a delivered
\* payload has its line.
C7_WinningBidTimestamp ==
    arg.op = "winning_bid_timestamp" =>
        /\ \A i \in 1..Len(printed) :
            LET line == printed[i]
                relay == line.relay
            IN  /\ line.slot = arg.slot
                /\ relay \in DOMAIN payloads
                /\ payloads[relay] # <<>>
                /\ Cardinality(LinesOf(relay)) = 1
                /\ Cardinality(QueriesTo(relay)) = 1
                /\ \A j \in QueriesTo(relay) :
                       /\ queries[j].opts.slot = Some(arg.slot)
                       /\ queries[j].opts.block_hash = Some(payloads[relay][1])
                /\ \E k \in 1..Len(fetched) :
                       fetched[k] = BidsEndpoint(relay, arg.slot, payloads[relay][1])
                /\ answers[relay].shape = "bids"
                /\ line.timestamp = answers[relay].items[1]
        /\ \A j \in 1..Len(queries) :
               /\ queries[j].relay \in DOMAIN payloads
               /\ payloads[queries[j].relay] # <<>>
        /\ (pc = "done" /\ ret.ok) =>
               \A relay \in DOMAIN payloads :
                   payloads[relay] # <<>> => LinesOf(relay) # {}

\* the command succeeded with a relay that delivered two payloads and
\* answered two bids, and another relay that delivered none
C7_Witness ==
    /\ Returned("winning_bid_timestamp")
    /\ ret.ok
    /\ \E r1, r2 \in DOMAIN payloads :
           /\ Len(payloads[r1]) = 2
           /\ LinesOf(r1) # {}
           /\ Len(answers[r1].items) = 2
           /\ payloads[r2] = <<>>

\* C8: when a relay delivered a payload and answers the builder-blocks
\* query with zero bids, the command reports a correlation failure naming
\* the slot and the relay; it does not index the empty sequence.
C8_CorrelationFailureReported ==
    (Returned("winning_bid_timestamp")
        /\ \E r \in DOMAIN answers : answers[r] = Body("bids", <<>>)) =>
        /\ ~ret.ok
        /\ ret.kind = "CorrelationFailure"

\* C9: a name that is not a key of the registry is looked up to the
\* not-found error naming it, and a single-relay operation called with it
\* returns that error and has fetched nothing.
C9_UnknownRelayNotFound ==
    /\ \A n \in CallNames \ DOMAIN relays :
           get_relay_url(n) =
               Err("RelayNotFound", "Relay " \o n \o " not found in list of relays")
    /\ (pc = "done" /\ arg.op \in SingleOps /\ arg.name \notin DOMAIN relays) =>
           /\ ~ret.ok
           /\ ret.kind = "RelayNotFound"
           /\ ret.msg = "Relay " \o arg.name \o " not found in list of relays"
           /\ fetched = <<>>

\* a builder-blocks call naming a default relay that the registry lacks
C9_Witness ==
    /\ Returned("bids")
    /\ arg.name \in RelayNames \ DOMAIN relays
    /\ DOMAIN relays # {}

\* C10: a relay answering the registration check with an empty body makes
\* get_validator_registration return a NotRegistered outcome, which is
\* neither a transport failure nor a parse failure.
C10_NotRegisteredDistinct ==
    (Returned("registration") /\ arg.name \in DOMAIN relays
        /\ answers[arg.name] = Body("empty", <<>>)) =>
        /\ ~ret.ok
        /\ ret.kind = "NotRegistered"
        /\ ret.kind \notin {"Transport", "Parse"}

(***************************************************************************)
(* The encoding the filters are to have, written from the declared fields. *)
(***************************************************************************)
\* the fields of the two filters in declaration order
PayloadDeliveredFields ==
    <<"slot", "cursor", "limit", "block_hash", "block_number",
      "proposer_pubkey", "builder_pubkey", "order_by">>
BuilderBidsFields ==
    <<"slot", "block_hash", "block_number", "builder_pubkey", "limit">>
NumericFields == {"slot", "cursor", "limit", "block_number"}

\* a natural number in decimal digits
RECURSIVE Decimal(_)
Decimal(n) ==
    LET digit == <<"0", "1", "2", "3", "4", "5", "6", "7", "8", "9">>[(n % 10) + 1]
    IN  IF n < 10 THEN digit ELSE Decimal(n \div 10) \o digit

\* one key=value& for each set field of o among fields, in their order
RECURSIVE Pairs(_, _)
Pairs(o, fields) ==
    IF fields = <<>> THEN ""
    ELSE LET key == Head(fields)
             pair == IF o[key] = None THEN ""
                     ELSE IF key \in NumericFields
                          THEN key \o "=" \o Decimal(o[key][1]) \o "&"
                          ELSE key \o "=" \o o[key][1] \o "&"
         IN  pair \o Pairs(o, Tail(fields))

\* C11: the encoding of a filter is "?" followed by one key=value& pair for
\* each set field and nothing for an unset field, in the declaration order
\* of the filter's fields.
C11_EncodingInDeclarationOrder ==
    /\ Returned("encode_payloads") =>
           ret.val = "?" \o Pairs(acc, PayloadDeliveredFields)
    /\ Returned("encode_bids") =>
           ret.val = "?" \o Pairs(acc, BuilderBidsFields)

\* a builder-bids filter with slot, block hash and limit set and the other
\* fields unset
C11_Witness ==
    /\ Returned("encode_bids")
    /\ acc.block_number = None /\ acc.builder_pubkey = None
    /\ ret.val = "?slot=7761220&block_hash=0xabc&limit=0&"

\* the endpoint an operation of the library fetches at relay r
EndpointAt(r) ==
    CASE arg.op \in {"slots_all", "vanilla", "validators"} ->
             relays[r] \o GET_VALIDATORS_ENDPOINT
      [] arg.op \in {"reg_all", "registration"} ->
             relays[r] \o CHECK_VALIDATOR_REGISTRATION \o "?pubkey=" \o arg.pubkey
      [] arg.op = "payloads" ->
             relays[r] \o GET_DELIVERED_PAYLOADS \o "?slot="
                 \o Decimal(arg.slot) \o "&"
      [] arg.op = "bids" ->
             relays[r] \o GET_BUILDER_BLOCKS_RECEIVED \o "?slot="
                 \o Decimal(arg.slot) \o "&"

\* C12: a single-relay operation has fetched once when its relay name is in
\* the registry and never otherwise, and a fetch that failed in transport is
\* its result; an aggregate call has fetched once at each relay it has
\* visited, at no relay twice and at none outside the registry.
C12_NoRetries ==
    /\ (pc = "done" /\ arg.op \in SingleOps) =>
           /\ Len(fetched) = IF arg.name \in DOMAIN relays THEN 1 ELSE 0
           /\ arg.name \in DOMAIN relays =>
                  /\ fetched = <<EndpointAt(arg.name)>>
                  /\ answers[arg.name] = TransportFailure =>
                         (~ret.ok /\ ret.kind = "Transport")
    /\ arg.op \in {"reg_all", "slots_all", "vanilla"} =>
           /\ Len(fetched) = Len(order)
           /\ \A i \in 1..Len(order) :
                  /\ order[i] \in DOMAIN relays
                  /\ fetched[i] = EndpointAt(order[i])
                  /\ \A j \in 1..Len(order) : order[j] = order[i] => j = i
           /\ \A r \in DOMAIN relays :
                  Cardinality({i \in 1..Len(fetched) :
                                  fetched[i] = EndpointAt(r)}) <= 1

\* an aggregate call over two relays returned after the fetch at the first
\* relay failed in transport
C12_Witness ==
    /\ Returned("reg_all")
    /\ Len(order) = 2
    /\ answers[order[1]] = TransportFailure
    /\ Len(fetched) = 2

\* C13: when get_validator_registration_for_all_slots_on_all_relays
\* succeeds, a relay of the registry is in the relay list of a slot exactly
\* when its response held a registration of that slot; every slot a relay
\* returned is a key of the map, within the filled range or not; and the
\* relay lists name relays of the registry only.
C13_SlotMapMatchesResponses ==
    (Returned("slots_all") /\ ret.ok) =>
        /\ ObservedSlots \subseteq DOMAIN ret.val
        /\ \A s \in DOMAIN ret.val :
               /\ Range(ret.val[s]) \subseteq DOMAIN relays
               /\ \A r \in DOMAIN relays :
                      r \in Range(ret.val[s]) <=> r \in RelaysAt(s)

\* two relays registered at the same slot, and one of them also at a slot
\* beyond the filled range
C13_Witness ==
    /\ Returned("slots_all")
    /\ ret.ok
    /\ Cardinality(RelaysAt(100)) = 2
    /\ RelaysAt(163) # {}
    /\ 162 \in DOMAIN ret.val
    /\ ret.val[162] = <<>>

\* the builder-blocks lookup at relay r returned an error
LookupFailed(r) ==
    /\ pc \in {"winning_bids", "done"}
    /\ r \in DOMAIN outcomes
    /\ ~outcomes[r].ok
    /\ outcomes[r].kind \in {"Transport", "Parse", "RelayNotFound"}

\* C14: the relays are processed one after another, and once the
\* builder-blocks lookup of one relay has failed the command has ended with
\* that error: the failing relay is the last one processed and has no
\* line, every relay with a payload processed before it has its line, and
\* no relay still to come has a query, an answer or a line.
C14_LookupFailureEndsCommand ==
    arg.op = "winning_bid_timestamp" =>
        /\ \A j \in 1..Len(queries) :
               \E i \in 1..Len(order) : order[i] = queries[j].relay
        /\ \A r \in DOMAIN payloads :
               LookupFailed(r) =>
                   /\ pc = "done"
                   /\ ret = outcomes[r]
                   /\ order[Len(order)] = r
                   /\ LinesOf(r) = {}
                   /\ \A i \in 1..(Len(order) - 1) :
                          payloads[order[i]] # <<>> =>
                              Cardinality(LinesOf(order[i])) = 1
                   /\ \A x \in remaining :
                          /\ QueriesTo(x) = {}
                          /\ LinesOf(x) = {}
                          /\ x \notin DOMAIN answers

\* the lookup of the first relay processed failed while another relay with
\* a delivered payload was still to come
C14_Witness ==
    /\ arg.op = "winning_bid_timestamp"
    /\ Len(order) = 1
    /\ LookupFailed(order[1])
    /\ \E x \in remaining : payloads[x] # <<>>

\* a line was printed for one relay before the lookup of the next failed
C14_WitnessEarlierReported ==
    /\ arg.op = "winning_bid_timestamp"
    /\ Len(order) = 2
    /\ LinesOf(order[1]) # {}
    /\ LookupFailed(order[2])
====
